---- MODULE Spec2Model ----
(***************************************************************************)
(* Model of package payment (src/wxpay/payment/payment.go): the order      *)
(* assembler (Order.prepare), the submission protocol (Order.Unify), the   *)
(* client-parameter generator (GetParams) and the payment-notification     *)
(* handler (HandlePaidNotify) with its helpers response.Check, newReplay   *)
(* and NewCouponResponseModel.                                             *)
(*                                                                         *)
(* Every invocation is independent (the package keeps no state between     *)
(* calls), so a behaviour is one invocation: it starts from "idle", picks  *)
(* an operation and its inputs, runs the operation step by step in the     *)
(* order of the source, and ends in "done" (the function returned) or      *)
(* "panic" (a nil dereference unwound the function).  Finish goes back to  *)
(* "idle".                                                                 *)
(*                                                                         *)
(* Collaborators outside the package (the XML codec, the HTTP transport,   *)
(* util.FetchIP, util.SignByMD5, util.RandomString, time.Now) are modelled *)
(* at their boundary: their outcome is an input of the invocation.         *)
(***************************************************************************)
EXTENDS Integers, Sequences, FiniteSets, TLC

VARIABLES
    op,     \* the operation in progress: "none", "HandlePaidNotify", "Unify", "GetParams"
    n,      \* the HandlePaidNotify invocation
    u,      \* the Unify invocation, with its call of prepare
    g       \* the GetParams invocation

vars == <<op, n, u, g>>

\* ------------------------------------------------------------------ bounds

\* The largest coupon_count a notification declares.
MaxCoupons == 2

\* ---------------------------------------------------------- response.Check

\* A Go error: nil, or errors.New(prefix + detail).
NoError == [kind |-> "nil", detail |-> ""]

GoError(kind, detail) == [kind |-> kind, detail |-> detail]

\* A mutant of Check: the business-level code is looked at first.
CheckResultFirst(res) ==
    IF res.ResultCode # "SUCCESS"
    THEN GoError("result_code", res.ErrCodeDes)
    ELSE IF res.ReturnCode # "SUCCESS"
         THEN GoError("return_code", res.ReturnMsg)
         ELSE NoError

\* A mutant of Check: only the transport-level code is looked at.
CheckReturnOnly(res) ==
    IF res.ReturnCode # "SUCCESS"
    THEN GoError("return_code", res.ReturnMsg)
    ELSE NoError

\* func (res response) Check() error.  kind "return_code" is the error
\* "交易失败: " + ReturnMsg, kind "result_code" is "发生错误: " + ErrCodeDes.
Check(res) ==
    IF res.ReturnCode # "SUCCESS"
    THEN GoError("return_code", res.ReturnMsg)
    ELSE IF res.ResultCode # "SUCCESS"
         THEN GoError("result_code", res.ErrCodeDes)
         ELSE NoError

\* ------------------------------------------------------------- newReplay

\* A mutant of newReplay: the code does not follow the boolean.
newReplayAlwaysSuccess(ok, msg) == [Code |-> "SUCCESS", Msg |-> msg]

\* func newReplay(ok bool, msg string) replay
newReplay(ok, msg) ==
    [Code |-> IF ok THEN "SUCCESS" ELSE "FAIL", Msg |-> msg]

\* ------------------------------------------------ NewCouponResponseModel

\* strconv.ParseInt(s, 10, 64) on a text given as a sequence of characters:
\* an optional sign, then one or more decimal digits.  Any other text is a
\* syntax error, and the value returned with the error is 0.  (Values are
\* kept far below 2^63, so the range error is not modelled.)
Digits == <<"0", "1", "2", "3", "4", "5", "6", "7", "8", "9">>

IsDigit(c) == \E d \in 1..10 : Digits[d] = c

DigitVal(c) == (CHOOSE d \in 1..10 : Digits[d] = c) - 1

RECURSIVE DigitsVal(_)
DigitsVal(s) ==
    IF s = <<>> THEN 0
    ELSE 10 * DigitsVal(SubSeq(s, 1, Len(s) - 1)) + DigitVal(s[Len(s)])

ParseInt(s) ==
    LET signed == s # <<>> /\ s[1] \in {"+", "-"}
        body   == IF signed THEN Tail(s) ELSE s
        ok     == body # <<>> /\ \A i \in 1..Len(body) : IsDigit(body[i])
    IN  [ok  |-> ok,
         val |-> IF ~ok THEN 0
                 ELSE IF signed /\ s[1] = "-" THEN 0 - DigitsVal(body)
                 ELSE DigitsVal(body)]

\* fmt.Sprintf("coupon_id_%d", i) and fmt.Sprintf("coupon_fee_%d", i)
ElemName(format, i) == <<format, i>>

\* (*etree.Element).SelectElement(name): the child element, or nil.  The
\* element tree of a body is the function from element names to
\* [present, text]; selecting on a nil element dereferences nil.
IsNil(root, name) == ~root.isXml \/ ~root.elems[name].present

\* func NewCouponResponseModel(doc, idFormat, feeFormat, numbers...) (m).
\* .Text() on the nil result of SelectElement panics; the error of ParseInt
\* is discarded (m.CouponFee, _ = ...).
NewCouponResponseModel(root, idFormat, feeFormat, i) ==
    IF IsNil(root, ElemName(idFormat, i)) \/ IsNil(root, ElemName(feeFormat, i))
    THEN [panic |-> TRUE, m |-> [CouponId |-> <<>>, CouponFee |-> 0]]
    ELSE [panic |-> FALSE,
          m |-> [CouponId  |-> root.elems[ElemName(idFormat, i)].text,
                 CouponFee |-> ParseInt(root.elems[ElemName(feeFormat, i)].text).val]]

\* ------------------------------------------------------ HandlePaidNotify

Codes == {"SUCCESS", "FAIL"}

\* The sign values of a notification: missing, the gateway's, a forged one.
Signs == {"", "VALIDSIGN", "FORGED"}

Absent == [present |-> FALSE, text |-> <<>>]

Elem(t) == [present |-> TRUE, text |-> t]

\* The texts a coupon_id_<i> and a coupon_fee_<i> element hold.
IdTexts == {<<"A">>, <<"B">>}

FeeTexts == {<<"1", "0", "0">>, <<"5", "0">>, <<"a", "b", "c">>}

ElemNames ==
    {ElemName(f, i) : f \in {"coupon_id_%d", "coupon_fee_%d"}, i \in 0..(MaxCoupons - 1)}

\* The element trees: every indexed element is absent or holds one of the texts.
CouponElems ==
    {e \in [ElemNames -> {Absent} \cup {Elem(t) : t \in IdTexts \cup FeeTexts}] :
        \A nm \in ElemNames :
            e[nm].present =>
                e[nm].text \in (IF nm[1] = "coupon_id_%d" THEN IdTexts ELSE FeeTexts)}

\* coupon_count in the body: absent (<<>>) or a decimal integer (<<k>>).
CountTexts == {<<>>, <<0 - 1>>} \cup {<<k>> : k \in 0..MaxCoupons}

\* The notification bodies.  shape says what the decoders make of the bytes:
\*   "ok"         a well-formed document with root element xml
\*   "bad_xml"    xml.Unmarshal fails (broken markup, a non-numeric total_fee)
\*   "bad_tail"   xml.Unmarshal succeeds on the root element, and
\*                etree's ReadFromBytes fails on what follows it
\*   "other_root" well-formed, the root element is not named xml
\* Indexed elements may lie one index past the declared count, not further
\* (the handler never looks there).
AllNotifyBodies ==
    [shape        : {"ok", "bad_xml", "bad_tail", "other_root"},
     return_code  : Codes,
     return_msg   : {"sign error"},
     result_code  : Codes,
     err_code     : {"ORDERPAID"},
     err_code_des : {"order paid"},
     sign         : Signs,
     out_trade_no : {"ON001"},
     coupon_count : CountTexts,
     elems        : CouponElems]

Declared(body) == IF body.coupon_count = <<>> THEN 0 ELSE body.coupon_count[1]

NotifyBodies ==
    {b \in AllNotifyBodies :
        \A nm \in ElemNames : b.elems[nm].present => nm[2] <= Declared(b)}

\* The faults of the request and of the response writer.
Faults == {"none", "read_err", "write_err"}

\* The decision callbacks handed to the handler: func(PaidNotify) (bool, string).
Callbacks == {"accept", "duplicate", "verify_sign"}

Decide(cb, arg) ==
    CASE cb = "accept"      -> [ok |-> TRUE, msg |-> ""]
      [] cb = "duplicate"   -> [ok |-> FALSE, msg |-> "duplicate"]
      [] cb = "verify_sign" -> IF arg.Sign = "VALIDSIGN"
                               THEN [ok |-> TRUE, msg |-> ""]
                               ELSE [ok |-> FALSE, msg |-> "bad sign"]

\* xml.Unmarshal(body, &ntf): the fields by their xml tags; an absent or
\* empty coupon_count leaves the int at 0; Coupons has the tag "-".
Unmarshal(body) ==
    [response   |-> [ReturnCode |-> body.return_code,
                     ReturnMsg  |-> body.return_msg,
                     ResultCode |-> body.result_code,
                     ErrCode    |-> body.err_code,
                     ErrCodeDes |-> body.err_code_des],
     PaidNotify |-> [Sign        |-> body.sign,
                     OutTradeNo  |-> body.out_trade_no,
                     CouponCount |-> IF body.coupon_count = <<>> THEN 0
                                     ELSE body.coupon_count[1],
                     Coupons     |-> <<>>]]

ZeroNotify ==
    [response   |-> [ReturnCode |-> "", ReturnMsg |-> "", ResultCode |-> "",
                     ErrCode |-> "", ErrCodeDes |-> ""],
     PaidNotify |-> [Sign |-> "", OutTradeNo |-> "", CouponCount |-> 0,
                     Coupons |-> <<>>]]

\* doc.ReadFromBytes(body); root := doc.SelectElement("xml")
Tree(body) == [isXml |-> body.shape # "other_root", elems |-> body.elems]

\* xml.Marshal(replay): the two tagged fields under the type's element.
Marshal(r) == [root |-> "replay", return_code |-> r.Code, return_msg |-> r.Msg]

NoResponse == [status |-> 0, body |-> <<>>]

NotifyIdle ==
    [pc |-> "idle", body |-> <<>>, fault |-> "none", decide |-> "accept",
     ntf |-> ZeroNotify, err |-> NoError, calls |-> <<>>, res |-> NoResponse,
     steps |-> <<>>]

\* The invocation as it starts: nothing decoded, nothing written.
NotifyStart(body, fault, decide) ==
    [pc |-> "ReadAll", body |-> body, fault |-> fault, decide |-> decide,
     ntf |-> ZeroNotify, err |-> NoError, calls |-> <<>>, res |-> NoResponse,
     steps |-> <<>>]

\* steps is the history of the invocation: the statements executed so far.
At(h, stmt) == [h EXCEPT !.steps = Append(h.steps, stmt)]

Return(h, err) == [h EXCEPT !.pc = "done", !.err = err]

\* body, err := ioutil.ReadAll(req.Body)
ReadAllStep(h) ==
    IF h.fault = "read_err"
    THEN Return(At(h, "ReadAll"), GoError("read", ""))
    ELSE [At(h, "ReadAll") EXCEPT !.pc = "Unmarshal"]

\* if err := xml.Unmarshal(body, &ntf); err != nil { return err }
UnmarshalStep(h) ==
    IF h.body.shape = "bad_xml"
    THEN Return(At(h, "Unmarshal"), GoError("xml", ""))
    ELSE [At(h, "Unmarshal") EXCEPT !.pc = "Coupons", !.ntf = Unmarshal(h.body)]

\* The loop of HandlePaidNotify over i = from .. CouponCount-1: the coupons
\* appended so far, and whether NewCouponResponseModel panicked.
RECURSIVE CouponLoop(_, _, _, _)
CouponLoop(root, count, i, acc) ==
    IF i >= count THEN [panic |-> FALSE, coupons |-> acc]
    ELSE LET r == NewCouponResponseModel(root, "coupon_id_%d", "coupon_fee_%d", i)
         IN  IF r.panic THEN [panic |-> TRUE, coupons |-> acc]
             ELSE CouponLoop(root, count, i + 1, Append(acc, r.m))

\* if ntf.CouponCount > 0 { ... }
CouponsStep(h) ==
    IF h.ntf.PaidNotify.CouponCount > 0
    THEN IF h.body.shape = "bad_tail"
         THEN Return(At(h, "Coupons"), GoError("etree", ""))
         ELSE LET r == CouponLoop(Tree(h.body), h.ntf.PaidNotify.CouponCount, 0, <<>>)
              IN  IF r.panic
                  THEN [At(h, "Coupons") EXCEPT !.pc = "panic",
                                                !.ntf.PaidNotify.Coupons = r.coupons]
                  ELSE [At(h, "Coupons") EXCEPT !.pc = "Check",
                                                !.ntf.PaidNotify.Coupons = r.coupons]
    ELSE [At(h, "Coupons") EXCEPT !.pc = "Check"]

\* A mutant of CheckStep: the notification's sign is verified with the status.
CheckStepVerifiesSign(h) ==
    LET err == Check(h.ntf.response)
    IN  IF err # NoError THEN Return(At(h, "Check"), err)
        ELSE IF h.ntf.PaidNotify.Sign # "VALIDSIGN"
        THEN Return(At(h, "Check"), GoError("sign", ""))
        ELSE [At(h, "Check") EXCEPT !.pc = "Callback"]

\* if err := ntf.Check(); err != nil { return err }
CheckStep(h) ==
    LET err == Check(h.ntf.response)
    IN  IF err # NoError THEN Return(At(h, "Check"), err)
        ELSE [At(h, "Check") EXCEPT !.pc = "Callback"]

\* fuck(ntf.PaidNotify): the callback is called with the payment result.
CallbackStep(h) ==
    [At(h, "Callback") EXCEPT !.pc = "Write",
                              !.calls = Append(h.calls, h.ntf.PaidNotify)]

\* A mutant of WriteStep: a rejected notification is not acknowledged.
WriteStepOnlyOnAccept(h) ==
    LET d      == Decide(h.decide, h.calls[Len(h.calls)])
        replay == newReplay(d.ok, d.msg)
    IN  IF d.ok
        THEN [At(h, "Write") EXCEPT
                !.pc  = "done",
                !.res = [status |-> 200, body |-> <<Marshal(replay)>>],
                !.err = IF h.fault = "write_err" THEN GoError("write", "") ELSE NoError]
        ELSE [At(h, "Write") EXCEPT !.pc = "done", !.err = GoError("rejected", d.msg)]

\* replay := newReplay(<the callback's result>); b, err := xml.Marshal(replay);
\* res.WriteHeader(http.StatusOK); _, err = res.Write(b); return err
WriteStep(h) ==
    LET d      == Decide(h.decide, h.calls[Len(h.calls)])
        replay == newReplay(d.ok, d.msg)
    IN  [At(h, "Write") EXCEPT
            !.pc  = "done",
            !.res = [status |-> 200, body |-> <<Marshal(replay)>>],
            !.err = IF h.fault = "write_err" THEN GoError("write", "") ELSE NoError]

\* The next statement of the invocation.
Step(h) ==
    CASE h.pc = "ReadAll"   -> ReadAllStep(h)
      [] h.pc = "Unmarshal" -> UnmarshalStep(h)
      [] h.pc = "Coupons"   -> CouponsStep(h)
      [] h.pc = "Check"     -> CheckStep(h)
      [] h.pc = "Callback"  -> CallbackStep(h)
      [] h.pc = "Write"     -> WriteStep(h)
      [] OTHER              -> h

\* func HandlePaidNotify(res, req, fuck) error, run to its end.
RECURSIVE HandlePaidNotify(_)
HandlePaidNotify(h) ==
    IF h.pc \in {"idle", "done", "panic"} THEN h ELSE HandlePaidNotify(Step(h))

\* ------------------------------------------------------- util.SignByMD5

\* The field names of both signature domains in ASCII byte order (the order
\* sort.Strings gives them).
SortedNames ==
    <<"appId", "appid", "attach", "body", "detail", "goods_tag", "limit_pay",
      "mch_id", "nonceStr", "nonce_str", "notify_url", "openid", "out_trade_no",
      "package", "signType", "sign_type", "spbill_create_ip", "timeStamp",
      "time_expire", "time_start", "total_fee", "trade_type">>

\* The entries of a map that contribute to the signature.
NonEmpty(data) == {k \in DOMAIN data : data[k] # ""}

\* name=value& for every non-empty field, names in order.
RECURSIVE Canonical(_, _)
Canonical(data, i) ==
    IF i > Len(SortedNames) THEN ""
    ELSE (IF SortedNames[i] \in NonEmpty(data)
          THEN SortedNames[i] \o "=" \o data[SortedNames[i]] \o "&"
          ELSE "") \o Canonical(data, i + 1)

\* util.SignByMD5(data, key): the digest of the canonical string, kept as
\* the string it digests (the digest is taken to be injective).
SignByMD5(data, key) == "MD5(" \o Canonical(data, 1) \o "key=" \o key \o ")"

\* ---------------------------------------------------------- Order.prepare

\* strconv.Itoa / strconv.FormatInt(n, 10)
RECURSIVE Itoa(_)
Itoa(k) ==
    IF k < 0 THEN "-" \o Itoa(0 - k)
    ELSE IF k < 10 THEN Digits[k + 1]
    ELSE Itoa(k \div 10) \o Digits[(k % 10) + 1]

\* A decimal number in a fixed width, zero-padded.
RECURSIVE Pad(_, _)
Pad(k, width) ==
    IF width = 0 THEN "" ELSE Pad(k \div 10, width - 1) \o Digits[(k % 10) + 1]

\* time.Time{}: January 1, year 1, 00:00:00 UTC.
ZeroTime == [Y |-> 1, Mo |-> 1, D |-> 1, h |-> 0, mi |-> 0, s |-> 0]

IsZero(t) == t = ZeroTime

\* t.Format(paymentTimeFormat), paymentTimeFormat = "20060102150405"
Format(t) ==
    Pad(t.Y, 4) \o Pad(t.Mo, 2) \o Pad(t.D, 2) \o Pad(t.h, 2) \o Pad(t.mi, 2) \o Pad(t.s, 2)

Times ==
    {ZeroTime,
     [Y |-> 2024, Mo |-> 1, D |-> 2, h |-> 3, mi |-> 4, s |-> 5]}

\* The order intents handed to prepare and Unify.
Orders ==
    [AppID      : {"wx1"},
     MchID      : {"10000"},
     TotalFee   : {100},
     NotifyURL  : {"https://x/cb"},
     OpenID     : {"oUser1"},
     Body       : {"", "Item"},
     OutTradeNo : {"ON001"},
     IP         : {"", "1.2.3.4"},
     NoCredit   : BOOLEAN,
     StartedAt  : Times,
     ExpiredAt  : Times,
     Tag        : {"", "WXG"},
     Detail     : {"", "goods"},
     Attach     : {"", "shop-7"}]

ZeroOrderIntent ==
    [AppID |-> "", MchID |-> "", TotalFee |-> 0, NotifyURL |-> "", OpenID |-> "",
     Body |-> "", OutTradeNo |-> "", IP |-> "", NoCredit |-> FALSE,
     StartedAt |-> ZeroTime, ExpiredAt |-> ZeroTime, Tag |-> "", Detail |-> "",
     Attach |-> ""]

\* order{}: the zero value of the wire order.
ZeroOrder ==
    [Order |-> ZeroOrderIntent, Sign |-> "", NonceStr |-> "", TradeType |-> "",
     SignType |-> "", NoCredit |-> "", StartedAt |-> "", ExpiredAt |-> ""]

\* The outcomes of util.FetchIP(): an address, or an error.
IPResults == {[err |-> FALSE, addr |-> "10.0.0.7"], [err |-> TRUE, addr |-> ""]}

\* The map put into signData by one conditional of prepare.
Put(cond, name, value) == IF cond THEN name :> value ELSE <<>>

\* A mutant of prepare's signData: limit_pay never reaches the map.
signDataNoLimitPay(o, od) ==
    [appid        |-> od.Order.AppID,
     body         |-> od.Order.Body,
     mch_id       |-> od.Order.MchID,
     nonce_str    |-> od.NonceStr,
     notify_url   |-> od.Order.NotifyURL,
     openid       |-> od.Order.OpenID,
     out_trade_no |-> od.Order.OutTradeNo,
     total_fee    |-> Itoa(od.Order.TotalFee),
     trade_type   |-> od.TradeType,
     sign_type    |-> od.SignType,
     spbill_create_ip |-> od.Order.IP]
    @@ Put(~IsZero(o.StartedAt), "time_start", od.StartedAt)
    @@ Put(~IsZero(o.ExpiredAt), "time_expire", od.ExpiredAt)
    @@ Put(o.Attach # "", "attach", od.Order.Attach)
    @@ Put(o.Detail # "", "detail", od.Order.Detail)
    @@ Put(o.Tag # "", "goods_tag", od.Order.Tag)

\* signData as prepare has filled it when it calls the signer: the ten
\* fields of the map literal, spbill_create_ip, and each optional field
\* under its condition.  o is the intent, od the wire order assembled.
signData(o, od) ==
    [appid        |-> od.Order.AppID,
     body         |-> od.Order.Body,
     mch_id       |-> od.Order.MchID,
     nonce_str    |-> od.NonceStr,
     notify_url   |-> od.Order.NotifyURL,
     openid       |-> od.Order.OpenID,
     out_trade_no |-> od.Order.OutTradeNo,
     total_fee    |-> Itoa(od.Order.TotalFee),
     trade_type   |-> od.TradeType,
     sign_type    |-> od.SignType,
     spbill_create_ip |-> od.Order.IP]
    @@ Put(~IsZero(o.StartedAt), "time_start", od.StartedAt)
    @@ Put(~IsZero(o.ExpiredAt), "time_expire", od.ExpiredAt)
    @@ Put(o.Attach # "", "attach", od.Order.Attach)
    @@ Put(o.Detail # "", "detail", od.Order.Detail)
    @@ Put(o.Tag # "", "goods_tag", od.Order.Tag)
    @@ Put(o.NoCredit, "limit_pay", od.NoCredit)

\* The wire order once every field but Sign is set.
Assembled(o, nonce, ip) ==
    [Order     |-> [o EXCEPT !.IP = IF o.IP = "" THEN ip.addr ELSE o.IP],
     Sign      |-> "",
     NonceStr  |-> nonce,
     TradeType |-> "JSAPI",
     SignType  |-> "MD5",
     NoCredit  |-> IF o.NoCredit THEN "no_credit" ELSE "",
     StartedAt |-> IF ~IsZero(o.StartedAt) THEN Format(o.StartedAt) ELSE "",
     ExpiredAt |-> IF ~IsZero(o.ExpiredAt) THEN Format(o.ExpiredAt) ELSE ""]

\* func (o *Order) prepare(key string) (order, error).  nonce is what
\* util.RandomString(32) gives, ip what util.FetchIP() gives, signOK whether
\* util.SignByMD5 returns without error.  Both error returns are
\* "return od, err": od as it stands at that point.
prepare(o, key, nonce, ip, signOK) ==
    LET od0 == [Order |-> o, Sign |-> "", NonceStr |-> nonce, TradeType |-> "JSAPI",
                SignType |-> "MD5", NoCredit |-> "", StartedAt |-> "",
                ExpiredAt |-> ""]
        od  == Assembled(o, nonce, ip)
    IN  IF o.IP = "" /\ ip.err
        THEN [od |-> od0, err |-> GoError("FetchIP", ""), signed |-> <<>>]
        ELSE IF ~signOK
        THEN [od |-> od, err |-> GoError("SignByMD5", ""), signed |-> signData(o, od)]
        ELSE [od     |-> [od EXCEPT !.Sign = SignByMD5(signData(o, od), key)],
              err    |-> NoError,
              signed |-> signData(o, od)]

\* The elements of the XML document of a wire order, by the xml tags of
\* Order and order: a field tagged omitempty is left out when empty, a
\* field tagged "-" is never sent.
XMLFields(od) ==
    [appid        |-> od.Order.AppID,
     mch_id       |-> od.Order.MchID,
     total_fee    |-> Itoa(od.Order.TotalFee),
     notify_url   |-> od.Order.NotifyURL,
     openid       |-> od.Order.OpenID,
     body         |-> od.Order.Body,
     out_trade_no |-> od.Order.OutTradeNo,
     sign         |-> od.Sign,
     nonce_str    |-> od.NonceStr,
     trade_type   |-> od.TradeType]
    @@ Put(od.Order.IP # "", "spbill_create_ip", od.Order.IP)
    @@ Put(od.Order.Tag # "", "goods_tag", od.Order.Tag)
    @@ Put(od.Order.Detail # "", "detail", od.Order.Detail)
    @@ Put(od.Order.Attach # "", "attach", od.Order.Attach)
    @@ Put(od.SignType # "", "sign_type", od.SignType)
    @@ Put(od.NoCredit # "", "limit_pay", od.NoCredit)
    @@ Put(od.StartedAt # "", "time_start", od.StartedAt)
    @@ Put(od.ExpiredAt # "", "time_expire", od.ExpiredAt)

\* ------------------------------------------------------------ Order.Unify

\* The bodies the gateway answers with.  shape "bad_xml" is a body that
\* xml.Unmarshal rejects.
ResponseBodies ==
    [shape        : {"ok", "bad_xml"},
     return_code  : Codes,
     return_msg   : {"sign error", "invalid appid"},
     result_code  : Codes,
     err_code     : {"ORDERPAID"},
     err_code_des : {"order paid", "no auth"},
     appid        : {"wx1"},
     mch_id       : {"10000"},
     prepay_id    : {"wx2017"},
     sign         : {"C380BEC2"},
     nonce_str    : {"IITRi8Iabbblz1Jc"}]

\* PaidResponse{}
ZeroPaidResponse ==
    [AppID |-> "", MchID |-> "", PrePayID |-> "", Sign |-> "", NonceStr |-> ""]

\* paidResponse{}
ZeroResponse ==
    [response     |-> [ReturnCode |-> "", ReturnMsg |-> "", ResultCode |-> "",
                       ErrCode |-> "", ErrCodeDes |-> ""],
     PaidResponse |-> ZeroPaidResponse]

\* xml.Unmarshal(data, &res) for res of type paidResponse
UnmarshalResponse(body) ==
    [response     |-> [ReturnCode |-> body.return_code,
                       ReturnMsg  |-> body.return_msg,
                       ResultCode |-> body.result_code,
                       ErrCode    |-> body.err_code,
                       ErrCodeDes |-> body.err_code_des],
     PaidResponse |-> [AppID    |-> body.appid,
                       MchID    |-> body.mch_id,
                       PrePayID |-> body.prepay_id,
                       Sign     |-> body.sign,
                       NonceStr |-> body.nonce_str]]

\* The strings util.RandomString(32) returns.
RECURSIVE Repeat(_, _)
Repeat(c, k) == IF k = 0 THEN "" ELSE c \o Repeat(c, k - 1)

RandomStrings == {Repeat("r", 32), Repeat("s", 32)}

Keys == {"k"}

UnifyIdle ==
    [pc |-> "idle", o |-> ZeroOrderIntent, key |-> "", reqData |-> ZeroOrder,
     perr |-> NoError, signed |-> <<>>, posted |-> <<>>, data |-> <<>>,
     res |-> ZeroResponse, pres |-> ZeroPaidResponse, err |-> NoError]

UnifyStart(o, key) == [UnifyIdle EXCEPT !.pc = "prepare", !.o = o, !.key = key]

\* reqData, err := o.prepare(key); if err != nil { return }
UnifyPrepareStep(c, nonce, ip, signOK) ==
    LET r == prepare(c.o, c.key, nonce, ip, signOK)
    IN  [c EXCEPT !.reqData = r.od, !.perr = r.err, !.signed = r.signed,
                  !.err = r.err,
                  !.pc  = IF r.err # NoError THEN "done" ELSE "PostXML"]

\* data, err := util.PostXML(baseURL+unifyAPI, reqData); if err != nil { return }
\* answer is <<>> when the transport fails, <<body>> otherwise.
UnifyPostStep(c, answer) ==
    IF answer = <<>>
    THEN [c EXCEPT !.posted = <<XMLFields(c.reqData)>>, !.pc = "done",
                   !.err = GoError("PostXML", "")]
    ELSE [c EXCEPT !.posted = <<XMLFields(c.reqData)>>, !.data = answer,
                   !.pc = "Unmarshal"]

\* var res paidResponse; if err = xml.Unmarshal(data, &res); err != nil { return }
UnifyUnmarshalStep(c) ==
    IF c.data[1].shape = "bad_xml"
    THEN [c EXCEPT !.pc = "done", !.err = GoError("xml", "")]
    ELSE [c EXCEPT !.pc = "Check", !.res = UnmarshalResponse(c.data[1])]

\* if err = res.Check(); err != nil { return }; pres = res.PaidResponse; return
UnifyCheckStep(c) ==
    LET err == Check(c.res.response)
    IN  IF err # NoError
        THEN [c EXCEPT !.pc = "done", !.err = err]
        ELSE [c EXCEPT !.pc = "done", !.err = NoError, !.pres = c.res.PaidResponse]

\* -------------------------------------------------------------- GetParams

\* The largest numbers of one-byte and of three-byte characters in a nonce.
MaxNonceAscii == 34

MaxNonceWide == 11

\* A nonce string: ascii one-byte characters followed by wide characters of
\* three bytes each in UTF-8 ("W" stands for one of them).
Nonces == [ascii : 0..MaxNonceAscii, wide : 0..MaxNonceWide]

NonceText(nonce) == Repeat("x", nonce.ascii) \o Repeat("W", nonce.wide)

\* The number of characters of a nonce.
NonceChars(nonce) == nonce.ascii + nonce.wide

\* len(nonceStr): Go's len of a string is its number of bytes.
GoLen(nonce) == nonce.ascii + 3 * nonce.wide

\* Params{}
ZeroParams ==
    [Timestamp |-> "", NonceStr |-> "", SignType |-> "", PaySign |-> "",
     Package |-> ""]

GetParamsIdle ==
    [pc |-> "idle", appID |-> "", key |-> "", nonce |-> [ascii |-> 0, wide |-> 0],
     prepayID |-> "", signed |-> <<>>, p |-> ZeroParams, err |-> NoError]

\* A mutant of GetParams: the bound is checked with >=.
GetParamsOffByOne(appID, key, nonce, prepayID, now, signOK) ==
    IF GoLen(nonce) >= 32
    THEN [p |-> ZeroParams, err |-> GoError("nonce", ""), signed |-> <<>>]
    ELSE LET p == [Timestamp |-> Itoa(now), NonceStr |-> NonceText(nonce),
                   SignType |-> "MD5", PaySign |-> "",
                   Package |-> "prepay_id=" \o prepayID]
             data == [appId     |-> appID,
                      signType  |-> p.SignType,
                      nonceStr  |-> NonceText(nonce),
                      package   |-> p.Package,
                      timeStamp |-> p.Timestamp]
         IN  IF signOK
             THEN [p |-> [p EXCEPT !.PaySign = SignByMD5(data, key)],
                   err |-> NoError, signed |-> <<data>>]
             ELSE [p |-> p, err |-> GoError("SignByMD5", ""), signed |-> <<data>>]

\* func GetParams(appID, key, nonceStr, prepayID string) (p Params, err error).
\* now is time.Now().Unix(), signOK whether util.SignByMD5 returns without
\* error (it returns "" with an error).  signed is what was handed to the
\* signer.
GetParams(appID, key, nonce, prepayID, now, signOK) ==
    IF GoLen(nonce) > 32
    THEN [p |-> ZeroParams, err |-> GoError("nonce", ""), signed |-> <<>>]
    ELSE LET p == [Timestamp |-> Itoa(now), NonceStr |-> NonceText(nonce),
                   SignType |-> "MD5", PaySign |-> "",
                   Package |-> "prepay_id=" \o prepayID]
             data == [appId     |-> appID,
                      signType  |-> p.SignType,
                      nonceStr  |-> NonceText(nonce),
                      package   |-> p.Package,
                      timeStamp |-> p.Timestamp]
         IN  IF signOK
             THEN [p |-> [p EXCEPT !.PaySign = SignByMD5(data, key)],
                   err |-> NoError, signed |-> <<data>>]
             ELSE [p |-> p, err |-> GoError("SignByMD5", ""), signed |-> <<data>>]

\* The values of time.Now().Unix().
Clock == {1700000000}

\* ---------------------------------------------------------------- actions

Init ==
    /\ op = "none"
    /\ n = NotifyIdle
    /\ u = UnifyIdle
    /\ g = GetParamsIdle

NotifyBegin ==
    /\ op = "none"
    /\ \E body \in NotifyBodies, fault \in Faults, decide \in Callbacks :
          \* a fault of the connection is tried with the well-formed bodies
          /\ fault = "none" \/ body.shape = "ok"
          \* a body that is never decoded is tried without coupon elements
          /\ (fault = "read_err" \/ body.shape = "bad_xml") =>
                \A nm \in ElemNames : ~body.elems[nm].present
          /\ n' = NotifyStart(body, fault, decide)
    /\ op' = "HandlePaidNotify"
    /\ UNCHANGED <<u, g>>

NotifyReadAll ==
    /\ op = "HandlePaidNotify" /\ n.pc = "ReadAll"
    /\ n' = ReadAllStep(n)
    /\ UNCHANGED <<op, u, g>>

NotifyUnmarshal ==
    /\ op = "HandlePaidNotify" /\ n.pc = "Unmarshal"
    /\ n' = UnmarshalStep(n)
    /\ UNCHANGED <<op, u, g>>

NotifyCoupons ==
    /\ op = "HandlePaidNotify" /\ n.pc = "Coupons"
    /\ n' = CouponsStep(n)
    /\ UNCHANGED <<op, u, g>>

NotifyCheck ==
    /\ op = "HandlePaidNotify" /\ n.pc = "Check"
    /\ n' = CheckStep(n)
    /\ UNCHANGED <<op, u, g>>

NotifyCallback ==
    /\ op = "HandlePaidNotify" /\ n.pc = "Callback"
    /\ n' = CallbackStep(n)
    /\ UNCHANGED <<op, u, g>>

NotifyWrite ==
    /\ op = "HandlePaidNotify" /\ n.pc = "Write"
    /\ n' = WriteStep(n)
    /\ UNCHANGED <<op, u, g>>

UnifyBegin ==
    /\ op = "none"
    /\ \E o \in Orders, key \in Keys : u' = UnifyStart(o, key)
    /\ op' = "Unify"
    /\ UNCHANGED <<n, g>>

UnifyPrepare ==
    /\ op = "Unify" /\ u.pc = "prepare"
    /\ \E nonce \in RandomStrings, ip \in IPResults, signOK \in BOOLEAN :
          u' = UnifyPrepareStep(u, nonce, ip, signOK)
    /\ UNCHANGED <<op, n, g>>

UnifyPostXML ==
    /\ op = "Unify" /\ u.pc = "PostXML"
    /\ \E answer \in {<<>>} \cup {<<b>> : b \in ResponseBodies} :
          u' = UnifyPostStep(u, answer)
    /\ UNCHANGED <<op, n, g>>

UnifyUnmarshal ==
    /\ op = "Unify" /\ u.pc = "Unmarshal"
    /\ u' = UnifyUnmarshalStep(u)
    /\ UNCHANGED <<op, n, g>>

UnifyCheck ==
    /\ op = "Unify" /\ u.pc = "Check"
    /\ u' = UnifyCheckStep(u)
    /\ UNCHANGED <<op, n, g>>

GetParamsCall ==
    /\ op = "none"
    /\ \E appID \in {"wx1"}, key \in Keys, nonce \in Nonces,
          prepayID \in {"", "wx2017"}, now \in Clock, signOK \in BOOLEAN :
          LET r == GetParams(appID, key, nonce, prepayID, now, signOK)
          IN  g' = [pc |-> "done", appID |-> appID, key |-> key, nonce |-> nonce,
                    prepayID |-> prepayID, signed |-> r.signed, p |-> r.p,
                    err |-> r.err]
    /\ op' = "GetParams"
    /\ UNCHANGED <<n, u>>

\* The invocation is over (returned or panicked): nothing of it is kept.
Finish ==
    /\ \/ op = "HandlePaidNotify" /\ n.pc \in {"done", "panic"}
       \/ op = "Unify" /\ u.pc = "done"
       \/ op = "GetParams" /\ g.pc = "done"
    /\ op' = "none"
    /\ n' = NotifyIdle
    /\ u' = UnifyIdle
    /\ g' = GetParamsIdle

Next ==
    \/ NotifyBegin
    \/ NotifyReadAll
    \/ NotifyUnmarshal
    \/ NotifyCoupons
    \/ NotifyCheck
    \/ NotifyCallback
    \/ NotifyWrite
    \/ UnifyBegin
    \/ UnifyPrepare
    \/ UnifyPostXML
    \/ UnifyUnmarshal
    \/ UnifyCheck
    \/ GetParamsCall
    \/ Finish

Spec == Init /\ [][Next]_vars

\* ----------------------------------------------------------------- claims

\* Both status layers of an envelope say SUCCESS.
StatusOK(r) == r.ReturnCode = "SUCCESS" /\ r.ResultCode = "SUCCESS"

\* The invocation of HandlePaidNotify is over.
NotifyOver == op = "HandlePaidNotify" /\ n.pc \in {"done", "panic"}

\* The statement the handler executed last.
LastStep == IF n.steps = <<>> THEN "" ELSE n.steps[Len(n.steps)]

\* Unify has decoded the gateway's answer and applied Check to it.
UnifyChecked ==
    op = "Unify" /\ u.pc = "done" /\ u.data # <<>> /\ u.data[1].shape = "ok"

\* The handler has applied Check to the notification.
NotifyChecked ==
    op = "HandlePaidNotify" /\ \E i \in 1..Len(n.steps) : n.steps[i] = "Check"

\* C1: the status check is evaluated in a fixed order.  If return_code is not
\* SUCCESS the error is built from return_msg alone; otherwise, if result_code
\* is not SUCCESS the error carries err_code_des; otherwise there is no error,
\* and only then does Unify return the embedded prepay result.  The same
\* check decides the handler's error.
C1_CheckOrder ==
    /\ UnifyChecked =>
          LET r == u.res.response
          IN  /\ r.ReturnCode # "SUCCESS" =>
                    /\ u.err = GoError("return_code", r.ReturnMsg)
                    /\ u.pres = ZeroPaidResponse
              /\ (r.ReturnCode = "SUCCESS" /\ r.ResultCode # "SUCCESS") =>
                    /\ u.err = GoError("result_code", r.ErrCodeDes)
                    /\ u.pres = ZeroPaidResponse
              /\ StatusOK(r) =>
                    /\ u.err = NoError
                    /\ u.pres = u.res.PaidResponse
    /\ (op = "Unify" /\ u.pres # ZeroPaidResponse) =>
          /\ UnifyChecked
          /\ StatusOK(u.res.response)
    /\ (NotifyChecked /\ LastStep = "Check") =>
          LET r == n.ntf.response
          IN  /\ r.ReturnCode # "SUCCESS" =>
                    n.err = GoError("return_code", r.ReturnMsg)
              /\ (r.ReturnCode = "SUCCESS" /\ r.ResultCode # "SUCCESS") =>
                    n.err = GoError("result_code", r.ErrCodeDes)
              /\ StatusOK(r) => n.err = NoError

\* Both layers failed, and the error is the transport-level one.
C1_Witness ==
    /\ UnifyChecked
    /\ u.res.response.ReturnCode = "FAIL"
    /\ u.res.response.ResultCode = "FAIL"
    /\ u.err = GoError("return_code", "invalid appid")
    /\ u.pres = ZeroPaidResponse

\* C2: when the notification's status check fails, the handler returns that
\* error, the callback is never invoked and nothing is written to the
\* response; the callback is invoked at most once, and only after the status
\* check has passed.
C2_NoCallbackOnFailedCheck ==
    op = "HandlePaidNotify" =>
        /\ Len(n.calls) <= 1
        /\ n.calls # <<>> =>
              /\ StatusOK(n.ntf.response)
              /\ \E i \in 1..Len(n.steps) :
                    /\ n.steps[i] = "Check"
                    /\ \A j \in 1..i : n.steps[j] # "Callback"
              /\ n.calls[1] = n.ntf.PaidNotify
        /\ ~StatusOK(n.ntf.response) =>
              /\ n.calls = <<>>
              /\ n.res = NoResponse
        /\ (NotifyChecked /\ ~StatusOK(n.ntf.response)) =>
              /\ n.pc = "done"
              /\ LastStep = "Check"
              /\ n.err.kind \in {"return_code", "result_code"}

\* The check failed on result_code alone and the handler returned the error.
C2_Witness ==
    /\ NotifyOver
    /\ LastStep = "Check"
    /\ n.ntf.response.ReturnCode = "SUCCESS"
    /\ n.ntf.response.ResultCode = "FAIL"
    /\ n.err = GoError("result_code", "order paid")
    /\ n.calls = <<>>
    /\ n.res = NoResponse

\* C3, as stated: for every notification body it receives, the handler writes
\* status 200 and an acknowledgement envelope.  (Stated of the invocations
\* that return: the crash of C4 is not what refutes it.)
C3_AlwaysAcks ==
    (op = "HandlePaidNotify" /\ n.pc = "done") =>
        (n.res.status = 200 /\ n.res.body # <<>>)

\* C3, amended: the handler writes status 200 and an acknowledgement envelope
\* exactly when it has invoked the decision callback, whatever the decision;
\* on every path that ends before the callback nothing is written.
C3_AcksExactlyAfterCallback ==
    /\ NotifyOver =>
          IF n.calls # <<>>
          THEN /\ n.res.status = 200
               /\ Len(n.res.body) = 1
               /\ n.res.body[1].return_code \in {"SUCCESS", "FAIL"}
          ELSE n.res = NoResponse
    /\ op = "HandlePaidNotify" => n.res.status \in {0, 200}

\* The callback rejected the notification and the rejection was written with 200.
C3_Witness ==
    /\ NotifyOver
    /\ n.decide = "duplicate"
    /\ n.calls # <<>>
    /\ n.res.status = 200
    /\ n.res.body[1].return_code = "FAIL"

\* C5: for a notification that passes the status check, the acknowledgement
\* written is determined by the callback's return value alone: code SUCCESS
\* when accepted, FAIL when not, never another value, and the message is the
\* reason unchanged.
C5_AckFollowsDecision ==
    /\ (NotifyOver /\ n.pc = "done" /\ NotifyChecked /\ StatusOK(n.ntf.response)) =>
          /\ n.calls # <<>>
          /\ n.res # NoResponse
    /\ (op = "HandlePaidNotify" /\ n.res # NoResponse) =>
          LET d   == Decide(n.decide, n.calls[1])
              ack == n.res.body[1]
          IN  /\ ack.return_code \in {"SUCCESS", "FAIL"}
              /\ d.ok => ack.return_code = "SUCCESS"
              /\ ~d.ok => ack.return_code = "FAIL"
              /\ ack.return_msg = d.msg
              /\ n.decide = "accept" =>
                    (ack.return_code = "SUCCESS" /\ ack.return_msg = "")
              /\ n.decide = "duplicate" =>
                    (ack.return_code = "FAIL" /\ ack.return_msg = "duplicate")

\* The callback returned (false, "duplicate") and {FAIL, duplicate} was written.
C5_Witness ==
    /\ NotifyOver
    /\ n.decide = "duplicate"
    /\ n.res.status = 200
    /\ n.res.body = <<[root |-> "replay", return_code |-> "FAIL",
                       return_msg |-> "duplicate"]>>

\* The indexed elements a notification declaring N coupons is expected to hold.
Expected(N) ==
    {ElemName(f, i) : f \in {"coupon_id_%d", "coupon_fee_%d"}, i \in 0..(N - 1)}

\* C4: when coupon_count = N > 0 and an expected indexed element is absent,
\* the handler returns an error to its caller: it does not crash, does not
\* invoke the callback and does not write an acknowledgement.
C4_MissingCouponIsAnError ==
    (/\ NotifyOver
     /\ \E i \in 1..Len(n.steps) : n.steps[i] = "Coupons"
     /\ n.body.shape = "ok"
     /\ n.ntf.PaidNotify.CouponCount > 0
     /\ \E nm \in Expected(n.ntf.PaidNotify.CouponCount) : ~n.body.elems[nm].present)
    => /\ n.pc = "done"
       /\ n.err # NoError
       /\ n.calls = <<>>
       /\ n.res = NoResponse

\* The decimal text of an integer, as a sequence of characters.
RECURSIVE Decimal(_)
Decimal(k) ==
    IF k < 0 THEN <<"-">> \o Decimal(0 - k)
    ELSE IF k < 10 THEN <<Digits[k + 1]>>
    ELSE Append(Decimal(k \div 10), Digits[(k % 10) + 1])

\* C6: with coupon_count = N and every coupon_id_<i>, coupon_fee_<i> present
\* for i in 0..N-1, the coupon sequence handed to the callback has exactly N
\* items, the i-th being (value of coupon_id_<i>, value of coupon_fee_<i>);
\* when coupon_count is absent or not positive the sequence is empty.
C6_CouponSequence ==
    (op = "HandlePaidNotify" /\ n.calls # <<>>) =>
        LET arg == n.calls[1]
            N   == Declared(n.body)
        IN  IF N > 0
            THEN (\A nm \in Expected(N) : n.body.elems[nm].present) =>
                    /\ Len(arg.Coupons) = N
                    /\ \A i \in 0..(N - 1) :
                          /\ arg.Coupons[i + 1].CouponId =
                                n.body.elems[ElemName("coupon_id_%d", i)].text
                          /\ Decimal(arg.Coupons[i + 1].CouponFee) =
                                n.body.elems[ElemName("coupon_fee_%d", i)].text
            ELSE arg.Coupons = <<>>

\* prepare has returned without error.
Prepared == op = "Unify" /\ u.pc \notin {"idle", "prepare"} /\ u.perr = NoError

\* The entries of a map with non-empty values, leaving some names out.
Contributing(data, except) == {<<k, data[k]>> : k \in NonEmpty(data) \ except}

\* C7: when prepare succeeds, the fields that contribute to the signature are
\* precisely the non-empty fields on the wire other than sign, with the same
\* values; each optional field is in both sets when the intent sets it and in
\* neither otherwise.
C7_SignedIsWire ==
    Prepared =>
        LET wire   == XMLFields(u.reqData)
            signed == Contributing(u.signed, {})
            sent   == Contributing(wire, {"sign"})
            In(name) == name \in NonEmpty(u.signed) /\ name \in NonEmpty(wire)
            Out(name) == name \notin DOMAIN u.signed /\ name \notin DOMAIN wire
            Both(set, name) == IF set THEN In(name) ELSE Out(name)
        IN  /\ signed = sent
            /\ u.reqData.Sign = SignByMD5(u.signed, u.key)
            /\ wire["sign"] = u.reqData.Sign
            /\ u.posted # <<>> => u.posted[1] = wire
            /\ Both(u.o.Attach # "", "attach")
            /\ Both(u.o.Detail # "", "detail")
            /\ Both(u.o.Tag # "", "goods_tag")
            /\ Both(u.o.NoCredit, "limit_pay")
            /\ Both(~IsZero(u.o.StartedAt), "time_start")
            /\ Both(~IsZero(u.o.ExpiredAt), "time_expire")
            /\ In("spbill_create_ip")

\* An order with the credit restriction and a start time, and no attach,
\* detail, tag or expiry, was signed and sent.
C7_Witness ==
    /\ Prepared
    /\ u.posted # <<>>
    /\ u.o.NoCredit /\ u.o.Attach = "" /\ u.o.Detail = "" /\ u.o.Tag = ""
    /\ u.o.IP = ""
    /\ ~IsZero(u.o.StartedAt) /\ IsZero(u.o.ExpiredAt)
    /\ u.posted[1]["limit_pay"] = "no_credit"
    /\ u.posted[1]["time_start"] = "20240102030405"
    /\ u.signed["spbill_create_ip"] = "10.0.0.7"

\* C8: no partial result is returned with an error.  For prepare, Unify and
\* GetParams the result returned with an error is the zero value, and a
\* non-zero result comes with a nil error and carries its signature.
C8_NoPartialResult ==
    /\ (op = "Unify" /\ u.pc \notin {"idle", "prepare"}) =>
          /\ u.perr # NoError => u.reqData = ZeroOrder
          /\ u.reqData # ZeroOrder => (u.perr = NoError /\ u.reqData.Sign # "")
    /\ (op = "Unify" /\ u.pc = "done") =>
          /\ u.err # NoError => u.pres = ZeroPaidResponse
          /\ u.pres # ZeroPaidResponse => u.err = NoError
    /\ (op = "GetParams" /\ g.pc = "done") =>
          /\ g.err # NoError => g.p = ZeroParams
          /\ g.p # ZeroParams => (g.err = NoError /\ g.p.PaySign # "")

Twin(sign) ==
    HandlePaidNotify(NotifyStart([n.body EXCEPT !.sign = sign], n.fault, n.decide))

\* The payment result without its Sign.
ApartFromSign(arg) == [arg EXCEPT !.Sign = ""]

\* C10, as stated: for two bodies that differ in sign alone the handler makes
\* the same decision about invoking the callback, passes it the same fields
\* apart from Sign, and returns the same error or writes the same
\* acknowledgement.  (Stated of the invocations that return.)
C10_SignIgnored ==
    (op = "HandlePaidNotify" /\ n.pc = "done") =>
        \A sign \in Signs :
            LET t == Twin(sign)
            IN  /\ t.pc = n.pc
                /\ t.steps = n.steps
                /\ t.err = n.err
                /\ Len(t.calls) = Len(n.calls)
                /\ n.calls # <<>> =>
                      ApartFromSign(t.calls[1]) = ApartFromSign(n.calls[1])
                /\ t.res = n.res

\* C10, amended: for two bodies that differ in sign alone the handler takes
\* the same path (the same statements, the same error or crash), invokes the
\* callback on both or on neither and passes it the same fields apart from
\* Sign; the acknowledgement is the one the callback's return value
\* determines, so it is the same whenever the callback returns the same for
\* both.  Every body that reaches the status check with both codes SUCCESS
\* reaches the callback, whatever its sign.
C10_SignIgnoredByHandler ==
    /\ NotifyOver =>
          \A sign \in Signs :
              LET t == Twin(sign)
              IN  /\ t.pc = n.pc
                  /\ t.steps = n.steps
                  /\ t.err = n.err
                  /\ Len(t.calls) = Len(n.calls)
                  /\ t.res.status = n.res.status
                  /\ n.calls # <<>> =>
                        /\ ApartFromSign(t.calls[1]) = ApartFromSign(n.calls[1])
                        /\ t.calls[1].Sign = sign
                        /\ Decide(n.decide, t.calls[1]) = Decide(n.decide, n.calls[1])
                              => t.res = n.res
    /\ (NotifyOver /\ NotifyChecked /\ StatusOK(n.ntf.response)) => n.calls # <<>>

\* A forged sign reached a callback that does not look at it, and was acknowledged.
C10_Witness ==
    /\ NotifyOver
    /\ n.body.sign = "FORGED"
    /\ n.decide = "accept"
    /\ n.calls # <<>>
    /\ n.calls[1].Sign = "FORGED"
    /\ n.res.status = 200
    /\ n.res.body[1].return_code = "SUCCESS"

====
